---- MODULE Spec2Model ----
(***************************************************************************)
(* A model of batchcensor: the timecode algebra (src/pos.rs, src/range.rs), *)
(* the sample engine (process_single, process_copy, process_silent in       *)
(* src/main.rs) and the reconciliation loop of main (src/main.rs).          *)
(*                                                                          *)
(* Three specifications share the variables:                                *)
(*   SpecPos   Pos::parse followed by Pos::as_samples on bounded inputs;    *)
(*   SpecProc  one Process task, process_single step by step, with the      *)
(*             I/O failures each step can meet;                             *)
(*   Spec      main: the roots are walked in any order, the entries are     *)
(*             matched against the index, the tasks run in any order.       *)
(***************************************************************************)
EXTENDS Integers, Sequences, FiniteSets, TLC

(***************************************************************************)
(* u32 arithmetic.  TLC's integers are 32-bit signed, so a u32 (and the     *)
(* unbounded value a checked operation compares against u32::MAX) is kept   *)
(* as its little-endian sequence of base-256 digits without leading zero    *)
(* digits; the number 0 is the empty sequence.                              *)
(***************************************************************************)
Base == 2 ^ 8

RECURSIVE BigNorm(_)
BigNorm(a) ==
    IF a = <<>> THEN <<>>
    ELSE IF a[Len(a)] = 0 THEN BigNorm(SubSeq(a, 1, Len(a) - 1))
    ELSE a

RECURSIVE FromInt(_)
FromInt(n) ==
    IF n = 0 THEN <<>> ELSE <<n % Base>> \o FromInt(n \div Base)

RECURSIVE ToInt(_)
ToInt(a) ==
    IF a = <<>> THEN 0 ELSE a[1] + Base * ToInt(Tail(a))

Digit(a, i) == IF i <= Len(a) THEN a[i] ELSE 0

RECURSIVE BigAddFrom(_, _, _, _)
BigAddFrom(a, b, i, carry) ==
    IF i > Len(a) /\ i > Len(b)
    THEN IF carry = 0 THEN <<>> ELSE <<carry>>
    ELSE LET s == Digit(a, i) + Digit(b, i) + carry
         IN  <<s % Base>> \o BigAddFrom(a, b, i + 1, s \div Base)

BigAdd(a, b) == BigNorm(BigAddFrom(a, b, 1, 0))

RECURSIVE BigMulDigitFrom(_, _, _, _)
BigMulDigitFrom(a, d, i, carry) ==
    IF i > Len(a)
    THEN FromInt(carry)
    ELSE LET p == a[i] * d + carry
         IN  <<p % Base>> \o BigMulDigitFrom(a, d, i + 1, p \div Base)

RECURSIVE BigMul(_, _)
BigMul(a, b) ==
    IF b = <<>> THEN <<>>
    ELSE BigAdd(BigNorm(BigMulDigitFrom(a, b[1], 1, 0)),
                BigNorm(<<0>> \o BigMul(a, Tail(b))))

\* a <= b, comparing from the most significant digit down.
RECURSIVE BigLeqFrom(_, _, _)
BigLeqFrom(a, b, i) ==
    IF i = 0 THEN TRUE
    ELSE IF a[i] # b[i] THEN a[i] < b[i]
    ELSE BigLeqFrom(a, b, i - 1)

BigLeq(a, b) ==
    IF Len(a) # Len(b) THEN Len(a) < Len(b) ELSE BigLeqFrom(a, b, Len(a))

\* a / k for a machine-sized divisor k > 0 (short division).
RECURSIVE BigDivFrom(_, _, _, _)
BigDivFrom(a, k, i, rem) ==
    IF i = 0 THEN <<>>
    ELSE LET cur == rem * Base + a[i]
         IN  BigDivFrom(a, k, i - 1, cur % k) \o <<cur \div k>>

BigDiv(a, k) == BigNorm(BigDivFrom(a, k, Len(a), 0))

BigMin(a, b) == IF BigLeq(a, b) THEN a ELSE b

\* u32::MAX = 4294967295 = 2^32 - 1.
U32_MAX == <<255, 255, 255, 255>>

\* Option<T>.
Some(v) == [ok |-> TRUE, v |-> v]
None == [ok |-> FALSE]

\* u32::checked_mul, u32::checked_add, u32::checked_div.
WrappingMul(a, b) == Some(BigNorm(SubSeq(BigMul(a, b) \o <<0, 0, 0, 0>>, 1, 4)))
CheckedMul(a, b) ==
    LET p == BigMul(a, b) IN IF BigLeq(p, U32_MAX) THEN Some(p) ELSE None

CheckedAdd(a, b) ==
    LET s == BigAdd(a, b) IN IF BigLeq(s, U32_MAX) THEN Some(s) ELSE None

CheckedDiv(a, k) == IF k = 0 THEN None ELSE Some(BigDiv(a, k))

\* x.checked_op(y?)? and x?.checked_op(y): None is passed on.
MulOpt(x, y) == IF x.ok /\ y.ok THEN CheckedMul(x.v, y.v) ELSE None

AddOpt(x, y) == IF x.ok /\ y.ok THEN CheckedAdd(x.v, y.v) ELSE None

DivOpt(x, k) == IF x.ok THEN CheckedDiv(x.v, k) ELSE None

(***************************************************************************)
(* Text.  A string is a sequence of one-character strings.                  *)
(***************************************************************************)
Digits == <<"0", "1", "2", "3", "4", "5", "6", "7", "8", "9">>

IsDigit(c) == \E i \in 1..10 : Digits[i] = c

DigitValue(c) == (CHOOSE i \in 1..10 : Digits[i] = c) - 1

\* char::is_whitespace, on the characters the model's texts are made of.
IsWhitespace(c) == c = " "

Find(s, c) ==
    IF \E i \in 1..Len(s) : s[i] = c
    THEN CHOOSE i \in 1..Len(s) : s[i] = c /\ \A j \in 1..(i - 1) : s[j] # c
    ELSE 0

\* str::split(c): the fields between the separators, at least one field.
RECURSIVE Split(_, _)
Split(s, c) ==
    LET i == Find(s, c)
    IN  IF i = 0 THEN <<s>>
        ELSE <<SubSeq(s, 1, i - 1)>> \o Split(SubSeq(s, i + 1, Len(s)), c)

\* str::trim.
RECURSIVE Trim(_)
Trim(s) ==
    IF s = <<>> THEN s
    ELSE IF IsWhitespace(s[1]) THEN Trim(Tail(s))
    ELSE IF IsWhitespace(s[Len(s)]) THEN Trim(SubSeq(s, 1, Len(s) - 1))
    ELSE s

\* The digits of s read left to right as a decimal number, None once the
\* value leaves u32 (the checked_mul / checked_add of from_str_radix).
RECURSIVE ParseDigits(_, _)
ParseDigits(s, acc) ==
    IF s = <<>> THEN Some(acc)
    ELSE LET m == CheckedMul(acc, FromInt(10))
             a == IF m.ok THEN CheckedAdd(m.v, FromInt(DigitValue(s[1]))) ELSE None
         IN  IF a.ok THEN ParseDigits(Tail(s), a.v) ELSE None

\* str::parse::<u32>: an optional '+', then one or more decimal digits.
ParseU32(s) ==
    LET body == IF s # <<>> /\ s[1] = "+" THEN Tail(s) ELSE s
    IN  IF body = <<>> \/ \E i \in 1..Len(body) : ~IsDigit(body[i])
        THEN None
        ELSE ParseDigits(body, <<>>)

(***************************************************************************)
(* Pos (src/pos.rs).                                                        *)
(***************************************************************************)
MkPos(h, m, s, ms) ==
    [hours |-> h, minutes |-> m, seconds |-> s, milliseconds |-> ms]

\* A variant that scales the milliseconds before it divides.
Pos_as_samples_exact_ms(pos, sample_rate) ==
    AddOpt(AddOpt(AddOpt(AddOpt(Some(<<>>),
                                MulOpt(CheckedMul(pos.hours, FromInt(3600)),
                                       Some(sample_rate))),
                         MulOpt(CheckedMul(pos.minutes, FromInt(60)),
                                Some(sample_rate))),
                  CheckedMul(pos.seconds, sample_rate)),
           DivOpt(CheckedMul(pos.milliseconds, sample_rate), 1000))

\* Pos::as_samples: every product and every running sum is checked.
Pos_as_samples(pos, sample_rate) ==
    AddOpt(AddOpt(AddOpt(AddOpt(Some(<<>>),
                                MulOpt(CheckedMul(pos.hours, FromInt(3600)),
                                       Some(sample_rate))),
                         MulOpt(CheckedMul(pos.minutes, FromInt(60)),
                                Some(sample_rate))),
                  CheckedMul(pos.seconds, sample_rate)),
           MulOpt(Some(pos.milliseconds), CheckedDiv(sample_rate, 1000)))

\* The field of main counted from the back, parsed, 0 when it is absent or
\* does not parse (and_then(..).unwrap_or_default()).
FieldOrDefault(main, back) ==
    IF Len(main) < back THEN <<>>
    ELSE LET p == ParseU32(main[Len(main) - back + 1])
         IN  IF p.ok THEN p.v ELSE <<>>

\* A variant that assigns minutes and hours from the left.
Pos_parse_from_left(s) ==
    LET main == Split(s, ":")
        last == Split(main[Len(main)], ".")
        secText == Trim(last[1])
        seconds == IF secText = <<>> THEN Some(<<>>) ELSE ParseU32(secText)
        milliseconds == IF Len(last) >= 2 THEN ParseU32(last[2]) ELSE None
        front == SubSeq(main, 1, Len(main) - 1)
        minutes == IF Len(front) >= 1
                   THEN FieldOrDefault(<<front[1]>>, 1) ELSE <<>>
        hours == IF Len(front) >= 2
                 THEN FieldOrDefault(<<front[2]>>, 1) ELSE <<>>
    IN  IF seconds.ok /\ milliseconds.ok
        THEN Some(MkPos(hours, minutes, seconds.v, milliseconds.v))
        ELSE None

\* Pos::parse of src/pos.rs.
Pos_parse(s) ==
    LET main == Split(s, ":")
        last == Split(main[Len(main)], ".")
        secText == Trim(last[1])
        seconds == IF secText = <<>> THEN Some(<<>>) ELSE ParseU32(secText)
        milliseconds == IF Len(last) >= 2 THEN ParseU32(last[2]) ELSE None
        minutes == FieldOrDefault(main, 2)
        hours == FieldOrDefault(main, 3)
    IN  IF seconds.ok /\ milliseconds.ok
        THEN Some(MkPos(hours, minutes, seconds.v, milliseconds.v))
        ELSE None

\* Pos::parse of src/main.rs, the one the binary is built with: the
\* seconds field is parsed as it stands, and minutes and hours are the
\* third and the fourth field of the split at '.'.
main_Pos_parse(s) ==
    LET main == Split(s, ":")
        last == Split(main[Len(main)], ".")
        seconds == ParseU32(last[1])
        milliseconds == IF Len(last) >= 2 THEN ParseU32(last[2]) ELSE None
        minutes == IF Len(last) >= 3
                   THEN FieldOrDefault(<<last[3]>>, 1) ELSE <<>>
        hours == IF Len(last) >= 4
                 THEN FieldOrDefault(<<last[4]>>, 1) ELSE <<>>
    IN  IF seconds.ok /\ milliseconds.ok
        THEN Some(MkPos(hours, minutes, seconds.v, milliseconds.v))
        ELSE None

(***************************************************************************)
(* Range and Replace (src/main.rs).                                         *)
(***************************************************************************)
MkRange(start, end) == [start |-> start, end |-> end]

\* Replace: the word (serialized as "kind") and its range.
MkReplace(word, range) == [word |-> word, range |-> range]

\* One side of a range: the open marker, or a position.
RangeSide(text, term) ==
    IF text = <<term>> THEN Some(None)
    ELSE IF Pos_parse(text).ok THEN Some(Pos_parse(text))
    ELSE None

RangeOf(start, end) ==
    IF start.ok /\ end.ok THEN Some(MkRange(start.v, end.v)) ELSE None

\* The n-th field of a split, None when the iterator is exhausted.
NextField(fields, n) == IF n <= Len(fields) THEN Some(fields[n]) ELSE None

RangeField(field, term) == IF field.ok THEN RangeSide(field.v, term) ELSE None

\* Range::parse: the first two fields of split('-').
Range_parse(s) ==
    RangeOf(RangeField(NextField(Split(s, "-"), 1), "^"),
            RangeField(NextField(Split(s, "-"), 2), "$"))

(***************************************************************************)
(* Transcript (src/transcript.rs).                                          *)
(***************************************************************************)
\* The first index at or after i at which c occurs, 0 when there is none.
FindFrom(s, c, i) ==
    IF \E k \in i..Len(s) : s[k] = c
    THEN CHOOSE k \in i..Len(s) : s[k] = c /\ \A j \in i..(k - 1) : s[j] # c
    ELSE 0

Marker(err, word, range, next) ==
    [err |-> err, word |-> word, range |-> range, next |-> next]

\* The end of parse_replace: the text between the braces is parsed.
MarkerRange(word, rangeText, parsed, next) ==
    IF parsed.ok THEN Marker("", word, parsed, next)
    ELSE Marker("bad range", word, None, next)

\* parse_replace behind the word: close is the index of ']'.  The
\* character behind ']' is taken from the iterator whatever it is.
MarkerTail(text, i, close, brace) ==
    IF close = 0 THEN Marker("missing word", <<>>, None, Len(text) + 1)
    ELSE IF close = Len(text) \/ text[close + 1] # "{"
    THEN Marker("", SubSeq(text, i, close - 1), None, close + 2)
    ELSE IF brace = 0
    THEN Marker("missing range", SubSeq(text, i, close - 1), None, Len(text) + 1)
    ELSE MarkerRange(SubSeq(text, i, close - 1),
                     SubSeq(text, close + 2, brace - 1),
                     Range_parse(SubSeq(text, close + 2, brace - 1)),
                     brace + 1)

\* Transcript::parse_replace, the iterator standing at index i.
parse_replace(text, i) ==
    MarkerTail(text, i, FindFrom(text, "]", i),
               FindFrom(text, "}", FindFrom(text, "]", i) + 2))

MkTranscript(text, replace, missing) ==
    [ok |-> TRUE, text |-> text, replace |-> replace, missing |-> missing]

TranscriptError(err) == [ok |-> FALSE, err |-> err]

\* Transcript::parse: the loop over the characters from index i on.
RECURSIVE Scan(_, _, _, _)
RECURSIVE ScanMarker(_, _, _, _)
Scan(text, i, replace, missing) ==
    IF FindFrom(text, "[", i) = 0 THEN MkTranscript(text, replace, missing)
    ELSE ScanMarker(text, parse_replace(text, FindFrom(text, "[", i) + 1),
                    replace, missing)

ScanMarker(text, m, replace, missing) ==
    IF m.err # "" THEN TranscriptError(m.err)
    ELSE IF m.range.ok
    THEN Scan(text, m.next, Append(replace, MkReplace(m.word, m.range.v)), missing)
    ELSE Scan(text, m.next, replace, Append(missing, m.word))

Transcript_parse(text) == Scan(text, 1, <<>>, <<>>)

(***************************************************************************)
(* Files.  A file is absent, a decodable WAV file (its spec and its         *)
(* interleaved 16-bit samples), bytes that are no WAV file, or a file that  *)
(* was created or truncated and not written to the end.                     *)
(***************************************************************************)
Absent == [kind |-> "none"]

Wav(rate, channels, data) ==
    [kind |-> "wav", rate |-> rate, channels |-> channels, data |-> data]

Junk(id) == [kind |-> "junk", id |-> id]

Truncated == [kind |-> "truncated"]

IsFile(f) == f.kind # "none"

\* WavReader::duration: the number of samples per channel.
Duration(wav) == Len(wav.data) \div wav.channels

(***************************************************************************)
(* The sample engine (src/main.rs).                                         *)
(***************************************************************************)
\* Zero::generate: one default sample per index of the range.
Zero_generate(start, end, sample_rate) == [i \in 1..(end - start) |-> 0]

\* u32::min(pos, duration) as usize.
ClampTo(pos, duration) ==
    IF pos.ok THEN Some(ToInt(BigMin(pos.v, FromInt(duration)))) ELSE None

\* process_single::pos: the sample offset of an end of a range, clamped to
\* the duration; None stands for a panic of one of the two expect calls.
SamplePos(p, wav, duration, default) ==
    IF ~p.ok THEN Some(default)
    ELSE ClampTo(MulOpt(Pos_as_samples(p.v, FromInt(wav.rate)),
                        Some(FromInt(wav.channels))),
                 duration)

\* A variant of the loop body whose slice runs through the sample at end.
Overwrite_through(data, start, end, sample_rate) ==
    IF ~start.ok \/ ~end.ok THEN None
    ELSE IF start.v = end.v THEN Some(data)
    ELSE IF start.v > end.v \/ end.v > Len(data) THEN None
    ELSE Some([i \in 1..Len(data) |->
                 IF start.v < i /\ i <= end.v + 1 THEN 0 ELSE data[i]])

\* The body of the loop once start and end are resolved: nothing when
\* they are equal, otherwise data[start..end] is overwritten with the
\* generated samples; None stands for a panic (an offset overflow, or a
\* slice whose start lies behind its end or whose end lies behind the
\* buffer).
Overwrite(data, start, end, sample_rate) ==
    IF ~start.ok \/ ~end.ok THEN None
    ELSE IF start.v = end.v THEN Some(data)
    ELSE IF start.v > end.v \/ end.v > Len(data) THEN None
    ELSE Some([i \in 1..Len(data) |->
                 IF start.v < i /\ i <= end.v
                 THEN Zero_generate(start.v, end.v, sample_rate)[i - start.v]
                 ELSE data[i]])

\* One turn of the loop over the replacements.
ApplyReplace(data, replace, wav) ==
    Overwrite(data,
              SamplePos(replace.range.start, wav, Duration(wav), 0),
              SamplePos(replace.range.end, wav, Duration(wav), Duration(wav)),
              wav.rate)

\* The loop over the replacements, from a buffer or from a panic.
RECURSIVE ApplyFrom(_, _, _)
ApplyFrom(r, replaces, wav) ==
    IF ~r.ok \/ replaces = <<>> THEN r
    ELSE ApplyFrom(ApplyReplace(r.v, replaces[1], wav), Tail(replaces), wav)

ApplyAll(data, replaces, wav) == ApplyFrom(Some(data), replaces, wav)

\* The result of a task: how it ended and the destination it leaves.
Outcome(res, dst) == [res |-> res, dst |-> dst]

\* The end of process_single on a decoded source.
Written(src, r) ==
    IF r.ok THEN Outcome("ok", Wav(src.rate, src.channels, r.v))
    ELSE Outcome("panic", src)

\* process_single when no file operation fails for a reason of the
\* environment: the destination is replaced by a copy of the source before
\* the source is decoded.
process_single(src, dst, replaces) ==
    IF ~IsFile(src) THEN Outcome("err", Absent)
    ELSE IF src.kind # "wav" THEN Outcome("err", src)
    ELSE Written(src, ApplyAll(src.data, replaces, src))

\* process_copy: std::fs::copy replaces the destination.
process_copy(src, dst) ==
    IF ~IsFile(src) THEN Outcome("err", dst) ELSE Outcome("ok", src)

\* A variant that writes the silence over an existing destination.
process_silent_clobber(src, dst) ==
    IF src.kind # "wav" THEN Outcome("err", dst)
    ELSE IF src.channels > 1 /\ Duration(src) > 0 THEN Outcome("panic", Truncated)
    ELSE Outcome("ok", Wav(src.rate, src.channels, [i \in 1..Len(src.data) |-> 0]))

\* process_silent: nothing is done when the destination exists; otherwise
\* the source is opened for its spec and duration * channels zero samples
\* are written through a writer that reserved duration samples.
process_silent(src, dst) ==
    IF IsFile(dst) THEN Outcome("ok", dst)
    ELSE IF src.kind # "wav" THEN Outcome("err", dst)
    ELSE IF src.channels > 1 /\ Duration(src) > 0 THEN Outcome("panic", Truncated)
    ELSE Outcome("ok", Wav(src.rate, src.channels, [i \in 1..Len(src.data) |-> 0]))

(***************************************************************************)
(* Paths.  A path is the sequence of its components and a component the    *)
(* sequence of its characters.  Source paths are relative to the root of   *)
(* the configuration, destination paths to the output directory.            *)
(***************************************************************************)
LastDot(name) ==
    IF \E i \in 1..Len(name) : name[i] = "."
    THEN CHOOSE i \in 1..Len(name) :
            name[i] = "." /\ \A j \in (i + 1)..Len(name) : name[j] # "."
    ELSE 0

\* Path::file_stem and Path::extension: a leading dot starts no extension.
Stem(name) ==
    IF LastDot(name) > 1 THEN SubSeq(name, 1, LastDot(name) - 1) ELSE name

Extension(name) ==
    IF LastDot(name) > 1
    THEN Some(SubSeq(name, LastDot(name) + 1, Len(name)))
    ELSE None

FileName(path) == path[Len(path)]

Parent(path) == SubSeq(path, 1, Len(path) - 1)

WithFileName(path, name) == Append(Parent(path), name)

WithExtension(path, ext) ==
    WithFileName(path, IF ext = <<>> THEN Stem(FileName(path))
                       ELSE Stem(FileName(path)) \o <<".">> \o ext)

StartsWith(path, root) ==
    Len(root) <= Len(path) /\ SubSeq(path, 1, Len(root)) = root

\* A file system: the files by path.
Get(fs, path) == IF path \in DOMAIN fs THEN fs[path] ELSE Absent

Remove(fs, path) == [q \in DOMAIN fs \ {path} |-> fs[q]]

Put(fs, path, file) ==
    IF ~IsFile(file) THEN Remove(fs, path)
    ELSE [q \in DOMAIN fs \cup {path} |-> IF q = path THEN file ELSE fs[q]]

\* The elements of a finite set in some order.
RECURSIVE SeqOfSet(_)
SeqOfSet(S) ==
    IF S = {} THEN <<>>
    ELSE <<CHOOSE x \in S : TRUE>> \o SeqOfSet(S \ {CHOOSE x \in S : TRUE})

(***************************************************************************)
(* Reconciliation and tasks (main).                                         *)
(***************************************************************************)
MkReplaceFile(path, transcript, replace) ==
    [path |-> path, transcript |-> transcript, replace |-> replace]

MkReplaceDir(path, file_prefix, file_extension, files) ==
    [path |-> path, file_prefix |-> file_prefix,
     file_extension |-> file_extension, files |-> files]

MkConfig(file_extension, dirs) ==
    [file_extension |-> file_extension, dirs |-> dirs]

MkTask(kind, path, dest, replace) ==
    [kind |-> kind, path |-> path, dest |-> dest, replace |-> replace]

OrElse(a, b) == IF a.ok THEN a ELSE b

Prefixed(path, file_prefix) ==
    IF file_prefix.ok
    THEN WithFileName(path, file_prefix.v \o FileName(path))
    ELSE path

Extended(path, file_extension) ==
    IF file_extension.ok THEN WithExtension(path, file_extension.v) ELSE path

\* The path an entry names: the prefix, then the extension, then the root.
Templated(cfg, dir, f) ==
    dir.path \o Extended(Prefixed(f.path, dir.file_prefix),
                         OrElse(dir.file_extension, cfg.file_extension))

\* The files the walk of a root yields: everything below it.
Walked(fs, root) == {p \in DOMAIN fs : StartsWith(p, root) /\ p # root}

IsWavPath(path) == Extension(FileName(path)) = Some(<<"w", "a", "v">>)

\* The copy of the .oac file next to a root.
OacTasks(fs, root) ==
    IF WithExtension(root, <<"o", "a", "c">>) \in DOMAIN fs
    THEN <<MkTask("Copy", WithExtension(root, <<"o", "a", "c">>),
                  WithExtension(root, <<"o", "a", "c">>), <<>>)>>
    ELSE <<>>

\* The copies of the files of a root that are no WAV files:
\* dest_root.join(path.strip_prefix(root)).
OtherTasks(fs, root) ==
    SeqOfSet({MkTask("Copy", p, root \o SubSeq(p, Len(root) + 1, Len(p)), <<>>) :
                p \in {q \in Walked(fs, root) : ~IsWavPath(q)}})

\* index.insert(path, (config_path, dest_root, dir_path)) for the WAV files
\* of a root.
Indexed(idx, fs, root) ==
    [p \in DOMAIN idx \cup {q \in Walked(fs, root) : IsWavPath(q)} |->
        IF StartsWith(p, root) /\ p # root /\ p \in DOMAIN fs
        THEN [dest_root |-> root, dir_path |-> root]
        ELSE idx[p]]

\* The entries of the directories configured for a root, in order.
RECURSIVE Entries(_, _)
Entries(dirs, root) ==
    IF dirs = <<>> THEN <<>>
    ELSE (IF Head(dirs).path = root
          THEN [i \in 1..Len(Head(dirs).files) |->
                   [dir |-> Head(dirs), f |-> Head(dirs).files[i]]]
          ELSE <<>>) \o Entries(Tail(dirs), root)

\* An index that reports every path as present.
NeverMissing(path, idx) == FALSE

\* index.remove(&path).is_none()
Missing(path, idx) == path \notin DOMAIN idx

\* The task of a matched entry: a copy when there is nothing to replace.
EntryTask(path, dest_root, f) ==
    IF f.replace = <<>>
    THEN MkTask("Copy", path, Append(dest_root, FileName(path)), <<>>)
    ELSE MkTask("Process", path, Append(dest_root, FileName(path)), f.replace)

\* A file left in the index copied as it is.
LeftoverCopy(path, dest_root) ==
    MkTask("Copy", path, Append(dest_root, FileName(path)), <<>>)

\* The task of a file left in the index.
LeftoverTask(path, dest_root) ==
    MkTask("ProcessSilent", path, Append(dest_root, FileName(path)), <<>>)

\* Task::run
Task_run(t, src, dst) ==
    IF t.kind = "Copy" THEN process_copy(src, dst)
    ELSE IF t.kind = "Process" THEN process_single(src, dst, t.replace)
    ELSE process_silent(src, dst)

(***************************************************************************)
(* Utilities (src/utils.rs).  A relative path is its text.                  *)
(***************************************************************************)
Letters ==
    <<"A", "B", "C", "D", "E", "F", "G", "H", "I", "J", "K", "L", "M",
      "N", "O", "P", "Q", "R", "S", "T", "U", "V", "W", "X", "Y", "Z">>

\* 'Z' - 'A' + 1
DIV == Len(Letters)

\* The loop of as_uppercase_radix: the digits, the lowest first.
RECURSIVE RadixDigits(_)
RadixDigits(index) ==
    IF index > 0
    THEN <<Letters[(index % DIV) + 1]>> \o RadixDigits(index \div DIV)
    ELSE <<>>

\* repeat('A').take(2usize.saturating_sub(count))
RadixPadding(count) == [i \in 1..(IF count < 2 THEN 2 - count ELSE 0) |-> "A"]

Reverse(s) == [i \in 1..Len(s) |-> s[Len(s) - i + 1]]

\* The digits and the padding without the reversal.
RadixLowestFirst(buf) == buf \o RadixPadding(Len(buf))

RadixReversed(buf) == Reverse(buf \o RadixPadding(Len(buf)))

\* A variant that keeps the lowest digit in front.
as_uppercase_radix_unreversed(index) == RadixLowestFirst(RadixDigits(index))

\* as_uppercase_radix
as_uppercase_radix(index) == RadixReversed(RadixDigits(index))

\* The decimal digits of a number, "0" for 0.
RECURSIVE Decimal(_)
Decimal(n) ==
    IF n < 10 THEN <<Digits[n + 1]>>
    ELSE Decimal(n \div 10) \o <<Digits[(n % 10) + 1]>>

\* format!("{:0width$}", n, width = width)
ZeroPadded(text, width) ==
    [i \in 1..(IF Len(text) < width THEN width - Len(text) ELSE 0) |-> "0"] \o text

\* The number of '$' at the start of a text.
RECURSIVE Width(_)
Width(rest) ==
    IF rest # <<>> /\ rest[1] = "$" THEN 1 + Width(Tail(rest)) ELSE 0

StartsWithToken(rest) == Len(rest) >= 2 /\ rest[1] = "$" /\ rest[2] = "@"

\* path_enumeration behind the find: prefix_i is the index of the first
\* '$', 0 when there is none.
Enumerated(index, s, prefix_i) ==
    IF prefix_i = 0 THEN s
    ELSE IF StartsWithToken(SubSeq(s, prefix_i, Len(s)))
    THEN SubSeq(s, 1, prefix_i - 1) \o as_uppercase_radix(index)
            \o SubSeq(s, prefix_i + 2, Len(s))
    ELSE SubSeq(s, 1, prefix_i - 1)
            \o ZeroPadded(Decimal(index + 1), Width(SubSeq(s, prefix_i, Len(s))))
            \o SubSeq(s, prefix_i + Width(SubSeq(s, prefix_i, Len(s))), Len(s))

\* A variant that substitutes every '$' of the path with the number.
RECURSIVE path_enumeration_each(_, _)
path_enumeration_each(index, s) ==
    IF s = <<>> THEN s
    ELSE IF s[1] = "$"
    THEN Decimal(index + 1) \o path_enumeration_each(index, Tail(s))
    ELSE <<s[1]>> \o path_enumeration_each(index, Tail(s))

\* path_enumeration
path_enumeration(index, s) == Enumerated(index, s, Find(s, "$"))

(***************************************************************************)
(* Templating and ingestion (src/utils.rs, src/config.rs).  The paths are   *)
(* relative paths: a path without components has no file name.              *)
(***************************************************************************)
\* RelativePath::file_name, file_stem and extension.
file_name(path) == IF path = <<>> THEN None ELSE Some(FileName(path))

file_stem(path) == IF path = <<>> THEN None ELSE Some(Stem(FileName(path)))

extension(path) == IF path = <<>> THEN None ELSE Extension(FileName(path))

\* RelativePath::with_file_name: the last component is popped when there
\* is one and the name is pushed; an empty name adds no component.
with_file_name(path, name) ==
    (IF path = <<>> THEN <<>> ELSE Parent(path))
        \o (IF name = <<>> THEN <<>> ELSE <<name>>)

\* RelativePath::with_extension: nothing is done without a file name.
with_extension(path, ext) ==
    IF path = <<>> THEN path ELSE WithExtension(path, ext)

\* str::starts_with and str::ends_with.
starts_with(name, prefix) ==
    Len(prefix) <= Len(name) /\ SubSeq(name, 1, Len(prefix)) = prefix

ends_with(name, suffix) ==
    /\ Len(suffix) <= Len(name)
    /\ SubSeq(name, Len(name) - Len(suffix) + 1, Len(name)) = suffix

\* utils::path_file_prefix
path_file_prefix(prefix, path) ==
    IF ~prefix.ok THEN path
    ELSE with_file_name(path, IF file_name(path).ok
                              THEN prefix.v \o file_name(path).v
                              ELSE prefix.v)

\* utils::path_file_suffix
path_file_suffix(suffix, path) ==
    IF ~suffix.ok THEN path
    ELSE with_file_name(path, IF file_name(path).ok
                              THEN file_name(path).v \o suffix.v
                              ELSE suffix.v)

\* The extension override of an entry's path: path.with_extension.
path_file_extension(file_extension, path) ==
    IF file_extension.ok THEN with_extension(path, file_extension.v) ELSE path

\* The library's ReplaceDir; files is the list of the stored paths.
LibReplaceDir(path, prefix, suffix, file_extension, files) ==
    [path |-> path, prefix |-> prefix, suffix |-> suffix,
     file_extension |-> file_extension, files |-> files]

\* insert_file, the extension: it has to be the file's, and the file keeps
\* its stem.  None stands for the bail.
StripExtension(e, file) ==
    IF ~e.ok THEN Some(file)
    ELSE IF extension(file) # e THEN None
    ELSE IF file_stem(file).ok
    THEN Some(with_file_name(file, file_stem(file).v))
    ELSE Some(file)

\* insert_file, the prefix.
StripPrefix(prefix, file) ==
    IF ~file.ok \/ ~prefix.ok THEN file
    ELSE IF ~file_name(file.v).ok THEN None
    ELSE IF ~starts_with(file_name(file.v).v, prefix.v) THEN None
    ELSE Some(with_file_name(file.v,
                             SubSeq(file_name(file.v).v, Len(prefix.v) + 1,
                                    Len(file_name(file.v).v))))

\* insert_file, the suffix.
StripSuffix(suffix, file) ==
    IF ~file.ok \/ ~suffix.ok THEN file
    ELSE IF ~file_name(file.v).ok THEN None
    ELSE IF ~ends_with(file_name(file.v).v, suffix.v) THEN None
    ELSE Some(with_file_name(file.v,
                             SubSeq(file_name(file.v).v, 1,
                                    Len(file_name(file.v).v) - Len(suffix.v))))

\* Files::insert on a list, and the result of insert_file: the directory
\* is the one before the call when insert_file bailed.
Files_insert(dir, file) ==
    IF file.ok
    THEN [ok |-> TRUE, dir |-> [dir EXCEPT !.files = Append(@, file.v)]]
    ELSE [ok |-> FALSE, dir |-> dir]

\* ReplaceDir::insert_file
insert_file(dir, file_extension, file) ==
    Files_insert(dir,
        StripSuffix(dir.suffix,
            StripPrefix(dir.prefix,
                StripExtension(OrElse(dir.file_extension, file_extension),
                               file))))

(***************************************************************************)
(* State.                                                                   *)
(***************************************************************************)
VARIABLES
    \* SpecPos: the text handed to Pos::parse, its result, the sample rate
    \* and the result of Pos::as_samples.
    ppc, ptext, ppos, prate, psamples,
    \* SpecProc: one run of process_single.  The source file, the
    \* destination file and what it was before the task, the replacements,
    \* the decoded buffer, the number of replacements applied, the place in
    \* the function and its result.
    ssrc, sdst, sdst0, sreplaces, sdata, si, spc, sres,
    \* Spec: one run of the program.  The configuration, the files of the
    \* root and its directories, the files of the output directory and
    \* what they were at the start, the place in main and its error, the
    \* roots still to visit, the entries of the current root still to
    \* match, the index of discovered WAV files, the tasks, the modified
    \* directories, the files found without configuration, and the tasks
    \* that ran and that failed.
    config, disk, directories, out, out0, pc, err, roots, queue, index,
    tasks, modified, unaccounted, ran, failed,
    \* SpecFn: one call of a function of the library.  The place in the
    \* call, the function, its argument and its result.
    fpc, fname, farg, fres

posVars == <<ppc, ptext, ppos, prate, psamples>>

procVars == <<ssrc, sdst, sdst0, sreplaces, sdata, si, spc, sres>>

runVars ==
    <<config, disk, directories, out, out0, pc, err, roots, queue, index,
      tasks, modified, unaccounted, ran, failed>>

fnVars == <<fpc, fname, farg, fres>>

vars == <<posVars, procVars, runVars, fnVars>>

\* The variables of a specification that is not the one running.
IdlePos ==
    /\ ppc = "idle" /\ ptext = <<>> /\ ppos = None /\ prate = <<>>
    /\ psamples = None

IdleProc ==
    /\ ssrc = Absent /\ sdst = Absent /\ sdst0 = Absent /\ sreplaces = <<>>
    /\ sdata = <<>> /\ si = 0 /\ spc = "idle" /\ sres = "idle"

IdleFn == fpc = "idle" /\ fname = "" /\ farg = <<>> /\ fres = <<>>

IdleRun ==
    /\ config = MkConfig(None, <<>>) /\ disk = <<>> /\ directories = {}
    /\ out = <<>> /\ out0 = <<>> /\ pc = "idle" /\ err = <<>>
    /\ roots = {} /\ queue = <<>> /\ index = <<>> /\ tasks = <<>>
    /\ modified = {} /\ unaccounted = {} /\ ran = {} /\ failed = {}

(***************************************************************************)
(* SpecPos: Pos::parse followed by Pos::as_samples.                         *)
(***************************************************************************)
\* The longest text of the exhaustive part of the inputs.
MaxTextLen == 4

\* The most colon-separated fields in front of the seconds field.
MaxFrontFields == 3

PosAlphabet == {"0", "1", "2", ":", ".", "x", "+", " "}

AllTexts == UNION {[1..n -> PosAlphabet] : n \in 0..MaxTextLen}

FieldSamples == {<<>>, <<"7">>, <<"1", "2">>, <<"x">>, <<" ", "3">>}

RECURSIVE JoinFront(_)
JoinFront(fields) ==
    IF fields = <<>> THEN <<>>
    ELSE fields[1] \o <<":">> \o JoinFront(Tail(fields))

\* Texts of the shape field:...:field:seconds.milliseconds.
FieldTexts ==
    {JoinFront(front) \o sec \o <<".">> \o ms :
        front \in UNION {[1..n -> FieldSamples] : n \in 0..MaxFrontFields},
        sec \in FieldSamples, ms \in FieldSamples}

\* The texts of the test in src/pos.rs.
TextDot123 == <<".", "1", "2", "3">>
Text42 == <<"4", "2", ".", "1", "2", "3">>
Text2142 == <<"2", "1", ":", "4", "2", ".", "1", "2", "3">>
Text122142 == <<"1", "2", ":", "2", "1", ":", "4", "2", ".", "1", "2", "3">>
\* Timecodes of a range 0.000-0.500, and u32::MAX + 1 as a field.
Text0000 == <<"0", ".", "0", "0", "0">>
Text0500 == <<"0", ".", "5", "0", "0">>
TextOver == <<"4", "2", "9", "4", "9", "6", "7", "2", "9", "6", ".", "0">>

TextInputs ==
    AllTexts \cup FieldTexts
        \cup {TextDot123, Text42, Text2142, Text122142, Text0000, Text0500, TextOver}

\* Field values of a Pos built directly (its fields are public): small
\* ones, the largest value and the first overflowing value of each product.
FieldInputs ==
    {<<>>, FromInt(1), FromInt(500), FromInt(1193046), FromInt(1193047),
     FromInt(71582788), FromInt(71582789), U32_MAX}

PosInputs ==
    {MkPos(h, m, s, ms) : h \in {<<>>, FromInt(1), FromInt(1193046), FromInt(1193047)},
                          m \in {<<>>, FromInt(1), FromInt(71582788), FromInt(71582789)},
                          s \in FieldInputs, ms \in FieldInputs}

RateInputs ==
    {<<>>, FromInt(1), FromInt(999), FromInt(1000), FromInt(1500),
     FromInt(44100), FromInt(48000), U32_MAX}

InitPos ==
    /\ IdleProc
    /\ IdleRun
    /\ IdleFn
    /\ prate = <<>>
    /\ psamples = None
    /\ \/ /\ ppc = "text"
          /\ ptext \in TextInputs
          /\ ppos = None
       \/ /\ ppc = "pos"
          /\ ptext = <<>>
          /\ ppos \in {Some(p) : p \in PosInputs}

\* Pos::parse(ptext).
Parse ==
    /\ ppc = "text"
    /\ ppos' = Pos_parse(ptext)
    /\ ppc' = IF ppos'.ok THEN "pos" ELSE "bad"
    /\ UNCHANGED <<ptext, prate, psamples, procVars, runVars, fnVars>>

\* pos.as_samples(rate).
AsSamples ==
    /\ ppc = "pos"
    /\ ppos.ok
    /\ \E rate \in RateInputs :
          /\ prate' = rate
          /\ psamples' = Pos_as_samples(ppos.v, rate)
    /\ ppc' = "samples"
    /\ UNCHANGED <<ptext, ppos, procVars, runVars, fnVars>>

NextPos == Parse \/ AsSamples

SpecPos == InitPos /\ [][NextPos]_vars

(***************************************************************************)
(* The unbounded values of the computation of as_samples.                   *)
(***************************************************************************)
HoursSeconds(pos) == BigMul(pos.hours, FromInt(3600))
HoursSamples(pos, rate) == BigMul(HoursSeconds(pos), rate)
MinutesSeconds(pos) == BigMul(pos.minutes, FromInt(60))
MinutesSamples(pos, rate) == BigMul(MinutesSeconds(pos), rate)
SecondsSamples(pos, rate) == BigMul(pos.seconds, rate)
MillisSamples(pos, rate) == BigMul(pos.milliseconds, BigDiv(rate, 1000))
Sum2(pos, rate) == BigAdd(HoursSamples(pos, rate), MinutesSamples(pos, rate))
Sum3(pos, rate) == BigAdd(Sum2(pos, rate), SecondsSamples(pos, rate))
Sum4(pos, rate) == BigAdd(Sum3(pos, rate), MillisSamples(pos, rate))

Intermediates(pos, rate) ==
    {HoursSeconds(pos), HoursSamples(pos, rate), MinutesSeconds(pos),
     MinutesSamples(pos, rate), SecondsSamples(pos, rate),
     MillisSamples(pos, rate), Sum2(pos, rate), Sum3(pos, rate), Sum4(pos, rate)}

Overflows(pos, rate) == \E x \in Intermediates(pos, rate) : ~BigLeq(x, U32_MAX)

\* ((h*3600 + m*60 + s) * rate) + ms * (rate / 1000), the division integral.
SamplesFormula(pos, rate) ==
    BigAdd(BigMul(BigAdd(BigAdd(HoursSeconds(pos), MinutesSeconds(pos)), pos.seconds),
                  rate),
           BigMul(pos.milliseconds, BigDiv(rate, 1000)))

\* C8: for every position and sample rate for which no intermediate value
\* exceeds 2^32-1, as_samples returns exactly
\* ((h*3600 + m*60 + s) * rate) + ms * (rate / 1000), with the integer
\* division of u32.
C8_AsSamplesFormula ==
    (ppc = "samples" /\ ~Overflows(ppos.v, prate))
        => psamples = Some(SamplesFormula(ppos.v, prate))

\* 12:21:42.123 at 44100 Hz: every field contributes, nothing overflows.
C8_Witness ==
    /\ ppc = "samples"
    /\ ptext = Text122142
    /\ prate = FromInt(44100)
    /\ psamples = Some(FromInt(1962543612))

\* C9: as_samples never returns a wrapped value: if any product or running
\* sum exceeds 2^32-1 the result is None, and a result Some(v) carries the
\* value of the computation in unbounded arithmetic.
C9_NeverWraps ==
    ppc = "samples" =>
        /\ Overflows(ppos.v, prate) => psamples = None
        /\ psamples.ok => psamples.v = Sum4(ppos.v, prate)

\* Only the product hours * 3600 * rate overflows, and the result is None.
C9_Witness ==
    /\ ppc = "samples"
    /\ ppos.v = MkPos(FromInt(1193046), <<>>, <<>>, <<>>)
    /\ prate = FromInt(1500)
    /\ BigLeq(HoursSeconds(ppos.v), U32_MAX)
    /\ ~BigLeq(HoursSamples(ppos.v, prate), U32_MAX)
    /\ psamples = None

(***************************************************************************)
(* Timecodes written from their fields.                                     *)
(***************************************************************************)
\* 10^n.
RECURSIVE BigPow10(_)
BigPow10(n) == IF n = 0 THEN FromInt(1) ELSE BigMul(BigPow10(n - 1), FromInt(10))

IsNumeral(n) == n # <<>> /\ \A i \in 1..Len(n) : IsDigit(n[i])

\* The value of a decimal numeral: the sum of digit * 10^place.
RECURSIVE NumeralValue(_)
NumeralValue(n) ==
    IF n = <<>> THEN <<>>
    ELSE BigAdd(BigMul(FromInt(DigitValue(n[1])), BigPow10(Len(n) - 1)),
                NumeralValue(Tail(n)))

\* The numerals that occur in a text and fit a u32 field.
NumeralsOf(text) ==
    {n \in {SubSeq(text, i, j) : i \in 1..Len(text), j \in 1..Len(text)} :
        IsNumeral(n) /\ BigLeq(NumeralValue(n), U32_MAX)}

EndsWith(text, tail) ==
    /\ Len(tail) <= Len(text)
    /\ SubSeq(text, Len(text) - Len(tail) + 1, Len(text)) = tail

\* What [[hours:]minutes:]seconds.milliseconds denotes; front holds the
\* numerals in front of the seconds, sec may be empty.
Denoted(front, sec, ms) ==
    MkPos(IF Len(front) = 2 THEN NumeralValue(front[1]) ELSE <<>>,
          IF Len(front) >= 1 THEN NumeralValue(front[Len(front)]) ELSE <<>>,
          NumeralValue(sec),
          NumeralValue(ms))

\* C10: Pos::parse assigns fields from the right: in
\* [[hours:]minutes:]seconds.milliseconds with numeric components (each one
\* a u32) the last field gives seconds and milliseconds, the one before it
\* minutes, the one before that hours; absent hours and minutes are 0 and
\* an empty seconds part is 0.
C10_ParseFromRight ==
    (ppc # "text" /\ ptext # <<>>) =>
        LET nums == NumeralsOf(ptext) IN
        \A ms \in nums :
            EndsWith(ptext, <<".">> \o ms) =>
        \A sec \in nums \cup {<<>>} :
            EndsWith(ptext, sec \o <<".">> \o ms) =>
        \A front \in UNION {[1..n -> nums] : n \in 0..2} :
            ptext = JoinFront(front) \o sec \o <<".">> \o ms
                => ppos = Some(Denoted(front, sec, ms))

\* The last assertion of the test: 12:21:42.123 is {12, 21, 42, 123}.
C10_Witness ==
    /\ ppc = "pos"
    /\ ptext = Text122142
    /\ ppos = Some(MkPos(FromInt(12), FromInt(21), FromInt(42), FromInt(123)))

\* A non-negative decimal number, with or without a sign.
IsDecimal(c) ==
    IsNumeral(c) \/ (c # <<>> /\ c[1] = "+" /\ IsNumeral(Tail(c)))

\* The components present in a timecode: the fields in front of the last
\* one that stand for minutes and hours, the seconds without the blanks
\* around them, and the milliseconds; an empty field is not present.
Components(text) ==
    LET main == Split(text, ":")
        last == Split(main[Len(main)], ".")
    IN  UNION {{main[i] : i \in {k \in 1..(Len(main) - 1) : k >= Len(main) - 2}},
               {Trim(last[1])},
               IF Len(last) >= 2 THEN {last[2]} ELSE {}} \ {<<>>}

\* C11: Pos::parse returns None whenever a component present in the text,
\* hours, minutes, seconds or milliseconds, is no non-negative decimal
\* number; 0 never stands in for a non-numeric hours or minutes field.
C11_NoneOnNonNumeric ==
    (ppc # "text" /\ ptext # <<>>
        /\ \E c \in Components(ptext) : ~IsDecimal(c)) => ppos = None

(***************************************************************************)
(* SpecProc: process_single, one step per file operation.  Every file       *)
(* operation can also fail for a reason of the environment (an I/O error).  *)
(***************************************************************************)
\* The most replacements of a file entry.
MaxReplaces == 2

\* The number of samples per channel of the short source files.
ShortFrames == 4

Ms(n) == Some(MkPos(<<>>, <<>>, <<>>, FromInt(n)))

\* A position whose sample offset overflows at every sample rate.
PosOverflow == Some(MkPos(U32_MAX, <<>>, <<>>, <<>>))

RangeInputs ==
    {MkRange(start, end) : start \in {None, Ms(0), Ms(1), Ms(2)},
                           end \in {None, Ms(1), Ms(2), Ms(3), PosOverflow}}

ReplaceInputs == {MkReplace("word", r) : r \in RangeInputs}

ShortWavs ==
    {Wav(rate, channels, [i \in 1..(ShortFrames * channels) |-> 10 + i]) :
        rate \in {1000, 1500}, channels \in {1, 2}}

OldDestination == Wav(1000, 1, <<99>>)

InitProc ==
    /\ IdlePos
    /\ IdleRun
    /\ IdleFn
    /\ ssrc \in ShortWavs \cup {Junk(1)}
    /\ sreplaces \in UNION {[1..n -> ReplaceInputs] : n \in 0..MaxReplaces}
    /\ sdst0 \in {Absent, OldDestination}
    /\ sdst = sdst0
    /\ sdata = <<>>
    /\ si = 0
    /\ spc = "start"
    /\ sres = "running"

ProcFail(res) ==
    /\ spc' = "end"
    /\ sres' = res

\* create_dir_all(dest_parent), when the directory is missing.
ProcMkdir ==
    /\ spc = "start"
    /\ \/ spc' = "remove" /\ UNCHANGED sres
       \/ ProcFail("err")
    /\ UNCHANGED <<ssrc, sdst, sdst0, sreplaces, sdata, si, posVars, runVars, fnVars>>

\* if dest_path.is_file() { remove_file(dest_path)? }
ProcRemove ==
    /\ spc = "remove"
    /\ \/ /\ spc' = "copy"
          /\ sdst' = Absent
          /\ UNCHANGED sres
       \/ /\ IsFile(sdst)
          /\ ProcFail("err")
          /\ UNCHANGED sdst
    /\ UNCHANGED <<ssrc, sdst0, sreplaces, sdata, si, posVars, runVars, fnVars>>

\* std::fs::copy(path, dest_path)?: a failing copy may leave a truncated
\* destination behind.
ProcCopy ==
    /\ spc = "copy"
    /\ \/ /\ spc' = "decode"
          /\ sdst' = ssrc
          /\ UNCHANGED sres
       \/ /\ ProcFail("err")
          /\ sdst' \in {sdst, Truncated}
    /\ UNCHANGED <<ssrc, sdst0, sreplaces, sdata, si, posVars, runVars, fnVars>>

\* File::open, WavReader::new, into_samples().collect()?
ProcDecode ==
    /\ spc = "decode"
    /\ \/ /\ ssrc.kind = "wav"
          /\ spc' = "replace"
          /\ sdata' = ssrc.data
          /\ UNCHANGED sres
       \/ /\ ProcFail("err")
          /\ UNCHANGED sdata
    /\ UNCHANGED <<ssrc, sdst, sdst0, sreplaces, si, posVars, runVars, fnVars>>

\* The loop body's effect on the task: the buffer is replaced, or the
\* task panics.
Replacement(r) ==
    \/ /\ r.ok
       /\ sdata' = r.v
       /\ si' = si + 1
       /\ UNCHANGED <<spc, sres>>
    \/ /\ ~r.ok
       /\ ProcFail("panic")
       /\ UNCHANGED <<sdata, si>>

\* One turn of for replace in replaces.
ProcReplace ==
    /\ spc = "replace"
    /\ si < Len(sreplaces)
    /\ Replacement(ApplyReplace(sdata, sreplaces[si + 1], ssrc))
    /\ UNCHANGED <<ssrc, sdst, sdst0, sreplaces, posVars, runVars, fnVars>>

\* File::create(&dest_path)? truncates the destination.
ProcCreate ==
    /\ spc = "replace"
    /\ si = Len(sreplaces)
    /\ \/ /\ spc' = "write"
          /\ sdst' = Truncated
          /\ UNCHANGED sres
       \/ /\ ProcFail("err")
          /\ UNCHANGED sdst
    /\ UNCHANGED <<ssrc, sdst0, sreplaces, sdata, si, posVars, runVars, fnVars>>

\* WavWriter::new(d, s)?, the samples, writer.flush()?
ProcWrite ==
    /\ spc = "write"
    /\ \/ /\ spc' = "end"
          /\ sres' = "ok"
          /\ sdst' = Wav(ssrc.rate, ssrc.channels, sdata)
       \/ /\ ProcFail("err")
          /\ UNCHANGED sdst
    /\ UNCHANGED <<ssrc, sdst0, sreplaces, sdata, si, posVars, runVars, fnVars>>

NextProc ==
    \/ ProcMkdir \/ ProcRemove \/ ProcCopy \/ ProcDecode
    \/ ProcReplace \/ ProcCreate \/ ProcWrite

SpecProc == InitProc /\ [][NextProc]_vars

\* C5: a Process task is all-or-nothing: when process_single fails at any
\* step after it starts, the destination file is in the state it had before
\* the task started.
C5_AllOrNothing ==
    (spc = "end" /\ sres # "ok") => sdst = sdst0

\* The sample a position of only seconds and milliseconds falls on when
\* the offset is computed on the exact millisecond value.
ExactSample(p, rate) ==
    ((ToInt(p.seconds) * 1000 + ToInt(p.milliseconds)) * rate) \div 1000

\* The samples of the written file that differ from the source.
Replaced == {i \in 1..Len(ssrc.data) : sdst.data[i] # ssrc.data[i]}

\* C7: for a mono file at rate R, a range from a milliseconds to b
\* milliseconds replaces exactly the sample interval [a*R/1000, b*R/1000),
\* computed on the exact millisecond value (at 44100 Hz the range
\* 0.000-0.500 would replace exactly the first 22050 samples).
C7_ExactMilliseconds ==
    (/\ spc = "end" /\ sres = "ok" /\ Len(sreplaces) = 1
     /\ ssrc.channels = 1
     /\ sreplaces[1].range.start.ok /\ sreplaces[1].range.end.ok
     /\ ExactSample(sreplaces[1].range.start.v, ssrc.rate)
            <= ExactSample(sreplaces[1].range.end.v, ssrc.rate)
     /\ ExactSample(sreplaces[1].range.end.v, ssrc.rate) <= Len(ssrc.data))
    => Replaced = (ExactSample(sreplaces[1].range.start.v, ssrc.rate) + 1)
                    ..ExactSample(sreplaces[1].range.end.v, ssrc.rate)

(***************************************************************************)
(* Spec: one run of main, from the loaded configuration to the end of the  *)
(* tasks.                                                                   *)
(***************************************************************************)
\* The most configured directories and the most entries of all of them.
MaxDirs == 2

MaxFiles == 2

RootA == << <<"a">> >>

RootAB == << <<"a">>, <<"b">> >>

WavExtension == <<"w", "a", "v">>

EntryX == << <<"x">> >>

EntryBX == << <<"b">>, <<"x">> >>

\* An entry with an enumeration token.
EntryEnum == << <<"x", "$">> >>

PathAX == << <<"a">>, <<"x", ".", "w", "a", "v">> >>

PathABX == << <<"a">>, <<"b">>, <<"x", ".", "w", "a", "v">> >>

PathANotes == << <<"a">>, <<"n", ".", "t", "x", "t">> >>

PathAOac == << <<"a", ".", "o", "a", "c">> >>

\* A transcript with a word that has no range.
TranscriptMissing == <<"[", "w", "]">>

\* A replacement of the first millisecond.
ReplaceFirst == MkReplace(<<"w">>, MkRange(Ms(0), Ms(1)))

FileInputs ==
    {MkReplaceFile(path, transcript, replace) :
        path \in {EntryX, EntryBX, EntryEnum},
        transcript \in {None, Some(TranscriptMissing)},
        replace \in {<<>>, <<ReplaceFirst>>}}

\* The directories with k entries.
DirInputs(k) ==
    {MkReplaceDir(path, None, None, files) :
        path \in {RootA, RootAB}, files \in [1..k -> FileInputs]}

\* The lists of n directories with at most m entries.
RECURSIVE DirsInputs(_, _)
DirsInputs(n, m) ==
    IF n = 0 THEN {<<>>}
    ELSE UNION {{<<dir>> \o rest :
                    dir \in DirInputs(k), rest \in DirsInputs(n - 1, m - k)} :
                k \in 0..m}

ConfigInputs ==
    {MkConfig(Some(WavExtension), dirs) :
        dirs \in UNION {DirsInputs(n, MaxFiles) : n \in 0..MaxDirs}}

\* What the files of the root hold: two WAV files that differ, one of
\* them possibly corrupt, and two files that are no WAV files.
Content(path, corrupt) ==
    IF path = PathAX THEN (IF corrupt THEN Junk(3) ELSE Wav(1000, 1, <<11, 12>>))
    ELSE IF path = PathABX THEN Wav(1000, 1, <<21>>)
    ELSE IF path = PathANotes THEN Junk(1)
    ELSE Junk(2)

DiskInputs ==
    {[p \in paths |-> Content(p, corrupt)] :
        paths \in SUBSET {PathAX, PathABX, PathANotes, PathAOac},
        corrupt \in BOOLEAN}

\* The directories of a file system, and possibly an empty a/b.
DirectoriesInputs(fs) ==
    IF PathABX \in DOMAIN fs THEN {{RootA, RootAB}}
    ELSE {{RootA}, {RootA, RootAB}}

\* The output directory at the start: empty, or holding a file of an
\* earlier run.
OutInputs == {<<>>, [p \in {PathAX} |-> OldDestination]}

Init ==
    /\ IdlePos
    /\ IdleProc
    /\ IdleFn
    /\ config \in ConfigInputs
    /\ disk \in DiskInputs
    /\ directories \in DirectoriesInputs(disk)
    /\ out0 \in OutInputs
    /\ out = out0
    /\ pc = "config"
    /\ err = <<>>
    /\ roots = {}
    /\ queue = <<>>
    /\ index = <<>>
    /\ tasks = <<>>
    /\ modified = {}
    /\ unaccounted = {}
    /\ ran = {}
    /\ failed = {}

\* The first configured directory that is no directory of the root, 0 when
\* all of them are.
FirstNoDir(dirs, present) ==
    IF \E i \in 1..Len(dirs) : dirs[i].path \notin present
    THEN CHOOSE i \in 1..Len(dirs) :
            /\ dirs[i].path \notin present
            /\ \A j \in 1..(i - 1) : dirs[j].path \in present
    ELSE 0

\* The loop over the configurations: the roots and the directories of each.
BuildRoots ==
    /\ pc = "config"
    /\ IF FirstNoDir(config.dirs, directories) # 0
       THEN /\ pc' = "error"
            /\ err' = <<"no such directory",
                        config.dirs[FirstNoDir(config.dirs, directories)].path>>
            /\ UNCHANGED roots
       ELSE /\ pc' = "collect"
            /\ roots' = {config.dirs[i].path : i \in 1..Len(config.dirs)}
            /\ UNCHANGED err
    /\ UNCHANGED <<config, disk, directories, out, out0, queue, index, tasks,
                   modified, unaccounted, ran, failed, posVars, procVars, fnVars>>

\* The head of the loop over the roots, which a hash map orders: the copy
\* of the .oac file, the walk and the entries to go through.
VisitRoot(root) ==
    /\ pc = "collect"
    /\ queue = <<>>
    /\ root \in roots
    /\ roots' = roots \ {root}
    /\ tasks' = tasks \o OacTasks(disk, root) \o OtherTasks(disk, root)
    /\ index' = Indexed(index, disk, root)
    /\ queue' = Entries(config.dirs, root)
    /\ UNCHANGED <<config, disk, directories, out, out0, pc, err, modified,
                   unaccounted, ran, failed, posVars, procVars, fnVars>>

\* One entry of the current root: its path is taken out of the index, or
\* the run ends.
Match(e, path) ==
    IF Missing(path, index)
    THEN /\ pc' = "error"
         /\ err' = <<"did not expect to censor file", path>>
         /\ UNCHANGED <<queue, index, tasks, modified>>
    ELSE /\ index' = Remove(index, path)
         /\ tasks' = Append(tasks, EntryTask(path, e.dir.path, e.f))
         /\ modified' = IF e.f.replace = <<>> THEN modified
                        ELSE modified \cup {e.dir.path}
         /\ queue' = Tail(queue)
         /\ UNCHANGED <<pc, err>>

MatchEntry ==
    /\ pc = "collect"
    /\ queue # <<>>
    /\ Match(Head(queue), Templated(config, Head(queue).dir, Head(queue).f))
    /\ UNCHANGED <<config, disk, directories, out, out0, roots, unaccounted,
                   ran, failed, posVars, procVars, fnVars>>

\* After the roots: every file left in the index is silenced.
Leftover ==
    /\ pc = "collect"
    /\ queue = <<>>
    /\ roots = {}
    /\ unaccounted' = DOMAIN index
    /\ tasks' = tasks \o SeqOfSet({LeftoverTask(p, index[p].dest_root) :
                                      p \in DOMAIN index})
    /\ modified' = modified \cup {index[p].dir_path : p \in DOMAIN index}
    /\ index' = <<>>
    /\ pc' = "run"
    /\ UNCHANGED <<config, disk, directories, out, out0, err, roots, queue,
                   ran, failed, posVars, procVars, fnVars>>

\* --stats: the counts are printed and no task runs.
Statistics ==
    /\ pc = "run"
    /\ ran = {}
    /\ pc' = "stats"
    /\ UNCHANGED <<config, disk, directories, out, out0, err, roots, queue,
                   index, tasks, modified, unaccounted, ran, failed,
                   posVars, procVars, fnVars>>

\* What a task leaves in the output directory and whether it failed.
Ran(i, o) ==
    /\ out' = Put(out, tasks[i].dest, o.dst)
    /\ ran' = ran \cup {i}
    /\ failed' = IF o.res = "ok" THEN failed ELSE failed \cup {i}

\* One task of the parallel iterator, run to its end.  The tasks of a run
\* are taken one after the other, in any order.
RunTask(i) ==
    /\ pc = "run"
    /\ i \in DOMAIN tasks \ ran
    /\ Ran(i, Task_run(tasks[i], Get(disk, tasks[i].path), Get(out, tasks[i].dest)))
    /\ UNCHANGED <<config, disk, directories, out0, pc, err, roots, queue,
                   index, tasks, modified, unaccounted, posVars, procVars, fnVars>>

\* The end of the parallel iterator: every task ran, or one of them failed
\* and the tasks not yet started are dropped.
Finish ==
    /\ pc = "run"
    /\ \/ /\ ran = DOMAIN tasks
          /\ failed = {}
          /\ pc' = "done"
          /\ UNCHANGED err
       \/ /\ failed # {}
          /\ pc' = "error"
          /\ err' = <<"failed to run", tasks[CHOOSE i \in failed : TRUE].path>>
    /\ UNCHANGED <<config, disk, directories, out, out0, roots, queue, index,
                   tasks, modified, unaccounted, ran, failed, posVars, procVars, fnVars>>

Next ==
    \/ BuildRoots
    \/ \E root \in roots : VisitRoot(root)
    \/ MatchEntry
    \/ Leftover
    \/ Statistics
    \/ \E i \in DOMAIN tasks : RunTask(i)
    \/ Finish

Spec == Init /\ [][Next]_vars

(***************************************************************************)
(* Properties of the reconciliation.                                        *)
(***************************************************************************)
\* The WAV files below a configured directory.
FoundWavs ==
    {p \in DOMAIN disk :
        /\ IsWavPath(p)
        /\ \E i \in 1..Len(config.dirs) :
              StartsWith(p, config.dirs[i].path) /\ p # config.dirs[i].path}

\* The tasks that read a file.
TasksOf(p) == {i \in DOMAIN tasks : tasks[i].path = p}

\* The tasks are collected and no error ended the collection.
Collected == pc \in {"run", "stats", "done"}

\* C1: when reconciliation finishes without error, every WAV file found
\* below a configured directory is the source of exactly one task, for
\* nested configured directories and every order of the roots as well.
C1_ExactlyOneTask ==
    Collected => \A p \in FoundWavs : Cardinality(TasksOf(p)) = 1

\* The transcript of an entry names a word without a range.
HasMissing(f) ==
    /\ f.transcript.ok
    /\ Transcript_parse(f.transcript.v).ok
    /\ Transcript_parse(f.transcript.v).missing # <<>>

\* C2: the file of an entry whose transcript has a word without a range is
\* the source of a force-silence task only, never of a Copy or a Process
\* task, whatever the replace list of the entry holds.
C2_MissingForcesSilence ==
    \A d \in 1..Len(config.dirs) : \A k \in 1..Len(config.dirs[d].files) :
        HasMissing(config.dirs[d].files[k]) =>
            \A i \in TasksOf(Templated(config, config.dirs[d],
                                       config.dirs[d].files[k])) :
                tasks[i].kind = "ProcessSilent"

\* Some entry of the configuration names the file.
Configured(p) ==
    \E d \in 1..Len(config.dirs) : \E k \in 1..Len(config.dirs[d].files) :
        Templated(config, config.dirs[d], config.dirs[d].files[k]) = p

HeadPath == Templated(config, Head(queue).dir, Head(queue).f)

\* C4: when the path of an entry is not in the index, the step ends the
\* run with 'did not expect to censor file', and no task has run and the
\* output directory is what it was at the start.
C4_MissingEntryAborts ==
    [][(pc = "collect" /\ queue # <<>> /\ HeadPath \notin DOMAIN index) =>
          /\ pc' = "error"
          /\ err' = <<"did not expect to censor file", HeadPath>>
          /\ ran' = {}
          /\ out' = out0]_vars

\* The run ended on an entry whose file an earlier entry had consumed,
\* with an output directory that was not empty.
C4_Witness ==
    /\ pc = "error"
    /\ err[1] = "did not expect to censor file"
    /\ \E i \in DOMAIN tasks : tasks[i].path = err[2]
    /\ out0 # <<>>
    /\ out = out0
    /\ ran = {}

\* The output directory after the tasks from the i-th on ran in the order
\* of the list.
RECURSIVE SerialFrom(_, _)
SerialFrom(o, i) ==
    IF i > Len(tasks) THEN o
    ELSE SerialFrom(Put(o, tasks[i].dest,
                        Task_run(tasks[i], Get(disk, tasks[i].path),
                                 Get(o, tasks[i].dest)).dst),
                    i + 1)

\* C6: once every task ran, the output directory holds what it holds after
\* the tasks ran in the order of the list, whatever order they ran in.
C6_OrderIndependent ==
    (pc \in {"run", "done", "error"} /\ ran = DOMAIN tasks) =>
        out = SerialFrom(out0, 1)

(***************************************************************************)
(* Properties of ranges.                                                    *)
(***************************************************************************)
TextOpenRange == <<"^", "-", "$">>

\* C12: Range::parse("^-$") is the range without start and end, and a
\* Process task with that range replaces every sample of the decoded
\* buffer, whatever the duration and the number of channels of the file.
C12_OpenRangeIsWholeFile ==
    /\ Range_parse(TextOpenRange) = Some(MkRange(None, None))
    /\ (spc = "end" /\ sres = "ok" /\ Len(sreplaces) = 1
            /\ Some(sreplaces[1].range) = Range_parse(TextOpenRange)) =>
          \A i \in 1..Len(ssrc.data) : sdst.data[i] = 0

(***************************************************************************)
(* SpecFn: one call of Range::parse, Transcript::parse, path_enumeration   *)
(* or as_uppercase_radix on bounded arguments.                              *)
(***************************************************************************)
\* The longest range text of the exhaustive part of the arguments.
MaxRangeLen == 4

\* The most pieces a transcript is put together from.
MaxTokens == 4

\* The longest path of the exhaustive part of the arguments.
MaxPathLen == 4

\* The largest index handed to as_uppercase_radix.
MaxIndex == 702

RangeAlphabet == {"^", "$", "-", "1", ".", ":"}

\* The texts of the tests and of the README, and one with three fields.
TextRange0500 == <<"0", ".", "0", "0", "0", "-", "0", ".", "5", "0", "0">>

TextRangeBar == <<"0", "1", ".", "1", "2", "3", "-", "$">>

TextRangeThree == <<"1", ".", "0", "-", "2", ".", "0", "-", "3", ".", "0">>

RangeTextInputs ==
    UNION {[1..n -> RangeAlphabet] : n \in 0..MaxRangeLen}
        \cup {TextOpenRange, TextRange0500, TextRangeBar, TextRangeThree}

RECURSIVE Flatten(_)
Flatten(pieces) ==
    IF pieces = <<>> THEN <<>> ELSE pieces[1] \o Flatten(Tail(pieces))

TranscriptTokens ==
    {<<"[", "a", "]">>, <<"[", "b", "]">>, <<"{", "^", "-", "$", "}">>,
     <<"{", "x", "}">>, <<" ">>, <<"c">>, <<"[">>}

\* The transcript of the test in src/transcript.rs, and '[slur]'.
TextFooBarBaz ==
    <<"f", "o", "o", " ", "[", "b", "a", "r", "]">>
        \o <<"{">> \o TextRangeBar \o <<"}">>
        \o <<" ", "[", "b", "a", "z", "]">>
        \o <<"{">> \o TextOpenRange \o <<"}">>

TextSlur == <<"[", "s", "l", "u", "r", "]">>

TranscriptInputs ==
    {Flatten(pieces) :
        pieces \in UNION {[1..n -> TranscriptTokens] : n \in 0..MaxTokens}}
        \cup {TextFooBarBaz, TextSlur}

PathAlphabet == {"$", "@", "a", "/"}

\* The paths of the test in src/utils.rs.
TextFooBarOne == <<"f", "o", "o", "/", "b", "a", "r", "/", "$">>

TextFooBarThree ==
    <<"f", "o", "o", "/", "b", "a", "r", "$", "$", "$", "/", "f", "o", "o">>

TextFooBarToken ==
    <<"f", "o", "o", "/", "b", "a", "r", "$", "@", "/", "f", "o", "o">>

EnumerationInputs ==
    {<<idx, path>> :
        idx \in {0, 1, 2, 8, 9, 25, 26, 99},
        path \in UNION {[1..n -> PathAlphabet] : n \in 0..MaxPathLen}
                    \cup {TextFooBarOne, TextFooBarThree, TextFooBarToken}}

\* The most pieces of a physical file name.
MaxNamePieces == 3

NamePieces ==
    {<<"p">>, <<"a">>, <<"s">>, <<".">>, <<".", "w", "a", "v">>}

\* A name is '.' or begins with '..': it is, or its stem is, no normal
\* component of a path.
IsDots(name) == name = <<".">> \/ (Len(name) >= 2 /\ name[1] = "." /\ name[2] = ".")

\* A file name with a dot in its stem.
TextDottedName == <<"a", ".", "a", ".", "w", "a", "v">>

\* The physical file names.
NameInputs ==
    {name \in {Flatten(pieces) :
                pieces \in UNION {[1..n -> NamePieces] : n \in 1..MaxNamePieces}} :
        ~IsDots(name)} \cup {TextDottedName}

LibDirInputs ==
    {LibReplaceDir(<<>>, prefix, suffix, file_extension, files) :
        prefix \in {None, Some(<<"p">>)},
        suffix \in {None, Some(<<"s">>)},
        file_extension \in {None, Some(WavExtension)},
        files \in {<<>>, << <<"a">> >>}}

InsertFileInputs ==
    {<<dir, file_extension, file>> :
        dir \in LibDirInputs,
        file_extension \in {None, Some(WavExtension)},
        file \in {<<name>> : name \in NameInputs}
                    \cup {<<<<"d">>, name>> : name \in NameInputs}}

\* A timecode of four fields between dots.
TextFourDots == <<"2", ".", "5", ".", "1", ".", "3">>

PosTextInputs == TextInputs \cup {TextFourDots}

InitFn ==
    /\ IdlePos
    /\ IdleProc
    /\ IdleRun
    /\ fpc = "call"
    /\ fres = <<>>
    /\ \/ fname = "Range::parse" /\ farg \in RangeTextInputs
       \/ fname = "Transcript::parse" /\ farg \in TranscriptInputs
       \/ fname = "path_enumeration" /\ farg \in EnumerationInputs
       \/ fname = "as_uppercase_radix" /\ farg \in 0..MaxIndex
       \/ fname = "insert_file" /\ farg \in InsertFileInputs
       \/ fname = "Pos::parse" /\ farg \in PosTextInputs

Returns(res) ==
    /\ fpc' = "done"
    /\ fres' = res
    /\ UNCHANGED <<fname, farg, posVars, procVars, runVars>>

CallRangeParse ==
    fpc = "call" /\ fname = "Range::parse" /\ Returns(Range_parse(farg))

CallTranscriptParse ==
    fpc = "call" /\ fname = "Transcript::parse"
        /\ Returns(Transcript_parse(farg))

CallPathEnumeration ==
    fpc = "call" /\ fname = "path_enumeration"
        /\ Returns(path_enumeration(farg[1], farg[2]))

CallUppercaseRadix ==
    fpc = "call" /\ fname = "as_uppercase_radix"
        /\ Returns(as_uppercase_radix(farg))

CallInsertFile ==
    fpc = "call" /\ fname = "insert_file"
        /\ Returns(insert_file(farg[1], farg[2], farg[3]))

\* The binary's Pos::parse.
CallMainPosParse ==
    fpc = "call" /\ fname = "Pos::parse" /\ Returns(main_Pos_parse(farg))

NextFn ==
    \/ CallRangeParse
    \/ CallTranscriptParse
    \/ CallPathEnumeration
    \/ CallUppercaseRadix
    \/ CallInsertFile
    \/ CallMainPosParse

SpecFn == InitFn /\ [][NextFn]_vars

(***************************************************************************)
(* Properties of the functions of the library.                              *)
(***************************************************************************)
\* A side of a range as the grammar has it: the open marker or a Pos.
ValidSide(text, marker) == text = <<marker>> \/ Pos_parse(text).ok

SideValue(text, marker) == IF text = <<marker>> THEN None ELSE Pos_parse(text)

BeforeDash(text) == SubSeq(text, 1, Find(text, "-") - 1)

AfterDash(text) == SubSeq(text, Find(text, "-") + 1, Len(text))

\* C13: Range::parse splits at the first '-' only: it returns a range iff
\* the text before the first '-' is '^' or a Pos and the whole text behind
\* it is '$' or a Pos; a text without '-' yields None.
C13_SplitsAtFirstDash ==
    (fpc = "done" /\ fname = "Range::parse") =>
        IF /\ Find(farg, "-") # 0
           /\ ValidSide(BeforeDash(farg), "^")
           /\ ValidSide(AfterDash(farg), "$")
        THEN fres = Some(MkRange(SideValue(BeforeDash(farg), "^"),
                                 SideValue(AfterDash(farg), "$")))
        ELSE fres = None

\* The markers of a text read off from left to right: a marker is '[', a
\* word, ']' and, when '{' follows at once, a range text and '}'; the
\* scan goes on right behind the marker.  None when a marker is not
\* closed or its range does not parse.
RECURSIVE Markers(_, _, _, _)
RECURSIVE MarkersAt(_, _, _, _, _)
Markers(text, i, replace, missing) ==
    IF FindFrom(text, "[", i) = 0
    THEN Some([replace |-> replace, missing |-> missing])
    ELSE MarkersAt(text, FindFrom(text, "[", i),
                   FindFrom(text, "]", FindFrom(text, "[", i) + 1),
                   replace, missing)

MarkersAt(text, open, close, replace, missing) ==
    IF close = 0 THEN None
    ELSE IF close = Len(text) \/ text[close + 1] # "{"
    THEN Markers(text, close + 1, replace,
                 Append(missing, SubSeq(text, open + 1, close - 1)))
    ELSE IF FindFrom(text, "}", close + 2) = 0 THEN None
    ELSE IF ~Range_parse(SubSeq(text, close + 2,
                                FindFrom(text, "}", close + 2) - 1)).ok
    THEN None
    ELSE Markers(text, FindFrom(text, "}", close + 2) + 1,
                 Append(replace,
                        MkReplace(SubSeq(text, open + 1, close - 1),
                                  Range_parse(SubSeq(text, close + 2,
                                      FindFrom(text, "}", close + 2) - 1)).v)),
                 missing)

\* C14: Transcript::parse emits the markers in text order: each
\* '[word]{range}' with a range that parses is appended to replace, each
\* '[word]' that no '{' follows is appended to missing, and the text
\* outside the markers adds nothing.
C14_MarkersInTextOrder ==
    (fpc = "done" /\ fname = "Transcript::parse"
        /\ Markers(farg, 1, <<>>, <<>>).ok) =>
            /\ fres.ok
            /\ fres.replace = Markers(farg, 1, <<>>, <<>>).v.replace
            /\ fres.missing = Markers(farg, 1, <<>>, <<>>).v.missing

\* text is the decimal number n zero-padded to width w: a numeral of the
\* value n that has w digits, or more when it has no leading zero.
IsZeroPadded(text, n, w) ==
    /\ IsNumeral(text)
    /\ NumeralValue(text) = FromInt(n)
    /\ Len(text) >= w
    /\ Len(text) = w \/ text[1] # "0"

\* The run of '$' that starts at i ends at j.
IsRun(s, i, j) ==
    /\ \A k \in i..j : s[k] = "$"
    /\ j = Len(s) \/ s[j + 1] # "$"

\* res is s with the token of length w at i replaced by a zero-padded n.
NumberAt(res, s, i, w, n) ==
    /\ Len(res) >= Len(s) - w + 1
    /\ SubSeq(res, 1, i - 1) = SubSeq(s, 1, i - 1)
    /\ SubSeq(res, Len(res) - (Len(s) - i - w), Len(res))
           = SubSeq(s, i + w, Len(s))
    /\ IsZeroPadded(SubSeq(res, i, Len(res) - (Len(s) - i - w) - 1), n, w)

\* C15: path_enumeration replaces the first enumeration token only: '$@'
\* by as_uppercase_radix(index), otherwise the run of w '$' by index + 1
\* zero-padded to width w; what follows, later '$' included, is kept, and
\* a path without '$' is returned as it is.
C15_FirstTokenOnly ==
    (fpc = "done" /\ fname = "path_enumeration") =>
        IF Find(farg[2], "$") = 0 THEN fres = farg[2]
        ELSE IF StartsWithToken(SubSeq(farg[2], Find(farg[2], "$"), Len(farg[2])))
        THEN fres = SubSeq(farg[2], 1, Find(farg[2], "$") - 1)
                        \o as_uppercase_radix(farg[1])
                        \o SubSeq(farg[2], Find(farg[2], "$") + 2, Len(farg[2]))
        ELSE \E j \in Find(farg[2], "$")..Len(farg[2]) :
                /\ IsRun(farg[2], Find(farg[2], "$"), j)
                /\ NumberAt(fres, farg[2], Find(farg[2], "$"),
                            j - Find(farg[2], "$") + 1, farg[1] + 1)

\* The second assertion of the test: foo/bar$$$/foo at index 2.
C15_Witness ==
    /\ fpc = "done"
    /\ fname = "path_enumeration"
    /\ farg = <<2, TextFooBarThree>>
    /\ fres = <<"f", "o", "o", "/", "b", "a", "r", "0", "0", "3", "/", "f", "o", "o">>

IsLetter(c) == \E i \in 1..Len(Letters) : Letters[i] = c

LetterValue(c) == (CHOOSE i \in 1..Len(Letters) : Letters[i] = c) - 1

\* The number a text of letters stands for in base 26, 'A' being 0 and
\* the first letter the most significant digit.
RECURSIVE RadixValue(_)
RadixValue(text) ==
    IF text = <<>> THEN 0
    ELSE RadixValue(SubSeq(text, 1, Len(text) - 1)) * 26
            + LetterValue(text[Len(text)])

\* C16: as_uppercase_radix(n) is n in base 26 with the digits 'A'..'Z',
\* the most significant digit first, padded with 'A' to two digits at
\* least; distinct indices give distinct texts.
C16_UppercaseRadix ==
    (fpc = "done" /\ fname = "as_uppercase_radix") =>
        /\ \A i \in 1..Len(fres) : IsLetter(fres[i])
        /\ Len(fres) >= 2
        /\ Len(fres) = 2 \/ fres[1] # "A"
        /\ RadixValue(fres) = farg
        /\ \A m \in 0..MaxIndex : m # farg => as_uppercase_radix(m) # fres

\* The last assertion of the test: 52 is CA.
C16_Witness ==
    /\ fpc = "done"
    /\ fname = "as_uppercase_radix"
    /\ farg = 52
    /\ fres = <<"C", "A">>

(***************************************************************************)
(* Properties of the templating in main.                                    *)
(***************************************************************************)
\* The text of a relative path, and the path of a text.
RECURSIVE PathText(_)
PathText(path) ==
    IF Len(path) <= 1 THEN Flatten(path)
    ELSE path[1] \o <<"/">> \o PathText(Tail(path))

PathOf(text) == Split(text, "/")

\* The path of the k-th entry of a directory with the enumeration token
\* substituted for the index k - 1, then the prefix, then the extension
\* of the directory or else of the document.  The directories of main
\* carry no suffix.
ExpectedPath(cfg, dir, k) ==
    dir.path \o Extended(Prefixed(PathOf(path_enumeration(k - 1,
                                      PathText(dir.files[k].path))),
                                  dir.file_prefix),
                         OrElse(dir.file_extension, cfg.file_extension))

\* C17: the path that reconciliation looks up in the index for an entry is
\* the entry's path after enumeration substitution with the position of
\* the entry as index, prefix, suffix and effective extension, in this
\* order.
C17_TemplatedLookup ==
    (pc = "collect" /\ queue # <<>>) =>
        \E k \in 1..Len(Head(queue).dir.files) :
            /\ Head(queue).dir.files[k] = Head(queue).f
            /\ HeadPath = ExpectedPath(config, Head(queue).dir, k)

(***************************************************************************)
(* Properties of the tasks.                                                 *)
(***************************************************************************)
\* The tasks that ran with the destination of the i-th task.
RanInto(i) == {j \in ran : tasks[j].dest = tasks[i].dest}

\* C18: a Copy task whose destination exists is skipped: a destination
\* that existed at the start and that only Copy tasks ran for holds what
\* it held at the start.
C18_CopySkipsExisting ==
    \A i \in ran :
        (/\ tasks[i].dest \in DOMAIN out0
         /\ \A j \in RanInto(i) : tasks[j].kind = "Copy")
        => Get(out, tasks[i].dest) = out0[tasks[i].dest]

\* C19: a ProcessSilent task that finds its destination returns success
\* and leaves every file as it is, whatever the source is; of two such
\* tasks for one destination only the first one writes.
C19_SilenceKeepsExisting ==
    [][\A i \in ran' \ ran :
          (tasks[i].kind = "ProcessSilent" /\ tasks[i].dest \in DOMAIN out)
          => (out' = out /\ failed' = failed)]_vars

\* Two ProcessSilent tasks for one destination ran, the destination was
\* absent at the start and holds the silence of one of them.
C19_Witness ==
    /\ pc = "done"
    /\ out0 = <<>>
    /\ \E i \in ran : \E j \in ran \ {i} :
          /\ tasks[i].kind = "ProcessSilent"
          /\ tasks[j].kind = "ProcessSilent"
          /\ tasks[i].dest = tasks[j].dest
          /\ Get(out, tasks[i].dest).kind = "wav"

\* C20: an arithmetic problem of a replacement (an offset overflow, a start
\* behind the end, a bound behind the buffer) ends the Process task with an
\* error result; the task never ends in a panic.
C20_ArithmeticIsError ==
    spc = "end" => sres \in {"ok", "err"}

(***************************************************************************)
(* Properties of a finished Process task.                                   *)
(***************************************************************************)
\* The resolved start and end of a replacement of the task.
ResolvedStart(r) == SamplePos(r.range.start, ssrc, Duration(ssrc), 0)

ResolvedEnd(r) == SamplePos(r.range.end, ssrc, Duration(ssrc), Duration(ssrc))

\* The buffer indices (from 1) inside a resolved interval [start, end).
Inside ==
    {i \in 1..Len(ssrc.data) :
        \E k \in 1..Len(sreplaces) :
            /\ ResolvedStart(sreplaces[k]).ok
            /\ ResolvedEnd(sreplaces[k]).ok
            /\ ResolvedStart(sreplaces[k]).v < i
            /\ i <= ResolvedEnd(sreplaces[k]).v}

\* C21: a successful Process task changes nothing outside the resolved
\* ranges: the output has the number of samples and the format spec of the
\* decoded source, every sample in no resolved interval [start, end) equals
\* the source sample at its index, and every sample inside a resolved
\* interval is 0 (the silence generator).
C21_OnlyRangesChange ==
    (spc = "end" /\ sres = "ok") =>
        /\ sdst.kind = "wav"
        /\ sdst.rate = ssrc.rate
        /\ sdst.channels = ssrc.channels
        /\ Len(sdst.data) = Len(ssrc.data)
        /\ \A i \in 1..Len(ssrc.data) :
              sdst.data[i] = IF i \in Inside THEN 0 ELSE ssrc.data[i]

\* A finished task of two replacements that silenced some samples and left
\* others, one of them right behind a resolved end.
C21_Witness ==
    /\ spc = "end" /\ sres = "ok" /\ Len(sreplaces) = 2
    /\ Inside # {}
    /\ \E i \in 1..Len(ssrc.data) \ Inside :
          /\ i - 1 \in Inside
          /\ sdst.data[i] = ssrc.data[i]
    /\ \A i \in Inside : sdst.data[i] = 0

(***************************************************************************)
(* The number of markers of a transcript.                                   *)
(***************************************************************************)
\* The number of '[...]' markers of a text, counted from index i on: a
\* marker runs from a '[' to the next ']' and takes the '{...}' that
\* follows it at once; the count goes on right behind the marker.
RECURSIVE CountFrom(_, _)
RECURSIVE CountAt(_, _)
CountFrom(text, i) ==
    IF FindFrom(text, "[", i) = 0 THEN 0
    ELSE CountAt(text, FindFrom(text, "]", FindFrom(text, "[", i) + 1))

CountAt(text, close) ==
    IF close = 0 THEN 0
    ELSE IF close < Len(text) /\ text[close + 1] = "{"
            /\ FindFrom(text, "}", close + 2) # 0
    THEN 1 + CountFrom(text, FindFrom(text, "}", close + 2) + 1)
    ELSE 1 + CountFrom(text, close + 1)

TextTwoMarkers == <<"[", "a", "]", "[", "b", "]", "{", "^", "-", "$", "}">>

\* C22: Transcript::parse loses no marker: for every text it accepts, the
\* entries of replace and of missing are together as many as the '[...]'
\* markers of the text, also when a word-only marker is followed at once
\* by another marker ('[a][b]{^-$}' records both a and b).
C22_NoMarkerLost ==
    /\ (fpc = "done" /\ fname = "Transcript::parse" /\ fres.ok
            /\ farg = TextTwoMarkers) =>
          /\ fres.missing = << <<"a">> >>
          /\ Len(fres.replace) = 1 /\ fres.replace[1].word = <<"b">>
    /\ (fpc = "done" /\ fname = "Transcript::parse" /\ fres.ok) =>
          Len(fres.replace) + Len(fres.missing) = CountFrom(farg, 1)

(***************************************************************************)
(* Ingestion against templating.                                            *)
(***************************************************************************)
\* The physical path of a stored path: prefix insertion, suffix insertion
\* and extension override with the effective extension.
Retemplated(dir, file_extension, path) ==
    path_file_extension(OrElse(dir.file_extension, file_extension),
        path_file_suffix(dir.suffix, path_file_prefix(dir.prefix, path)))

\* The file name without the effective extension, when there is one.
BaseName(dir, file_extension, file) ==
    IF OrElse(dir.file_extension, file_extension).ok
    THEN Stem(FileName(file)) ELSE FileName(file)

\* The physical name lacks the configured prefix, suffix or extension.
Lacks(dir, file_extension, file) ==
    \/ /\ OrElse(dir.file_extension, file_extension).ok
       /\ Extension(FileName(file)) # OrElse(dir.file_extension, file_extension)
    \/ /\ dir.prefix.ok
       /\ ~starts_with(BaseName(dir, file_extension, file), dir.prefix.v)
    \/ /\ dir.suffix.ok
       /\ ~ends_with(BaseName(dir, file_extension, file), dir.suffix.v)

\* C23: ingestion is the inverse of templating: when insert_file succeeds,
\* prefix insertion, suffix insertion and extension override on the path it
\* stored give the physical file name again; and insert_file fails, with
\* the file list of the directory unchanged, when the name lacks the
\* configured prefix, suffix or extension.
C23_IngestionInvertsTemplating ==
    (fpc = "done" /\ fname = "insert_file") =>
        /\ fres.ok =>
              /\ Len(fres.dir.files) = Len(farg[1].files) + 1
              /\ Retemplated(farg[1], farg[2],
                             fres.dir.files[Len(fres.dir.files)]) = farg[3]
        /\ ~fres.ok => fres.dir = farg[1]
        /\ Lacks(farg[1], farg[2], farg[3]) => ~fres.ok

(***************************************************************************)
(* The two timecode parsers.                                                *)
(***************************************************************************)
\* C24: the timecode parser of the command-line program (Pos::parse of
\* main.rs) and the parser of the library (Pos::parse of pos.rs) agree: for
\* every text both return None, or both return the same hours, minutes,
\* seconds and milliseconds.
C24_ParsersAgree ==
    (fpc = "done" /\ fname = "Pos::parse") => fres = Pos_parse(farg)

====
